---- MODULE Spec2Model ----
(***************************************************************************)
(* A model of coding_puzzle_tools.io: puzzle_info (the path parser),       *)
(* read_input (the input reader) and with_calling_file_context (the        *)
(* decorator that injects the caller's file).                              *)
(*                                                                         *)
(* Text is a sequence of one-character strings (<<"d","0","1">> is "d01"), *)
(* a path is the sequence of its segments (pathlib's parts).               *)
(***************************************************************************)
EXTENDS Integers, Sequences, FiniteSets, TLC

VARIABLES
    filepath,    \* the path handed to puzzle_info / injected into read_input
    ret,         \* SpecParse: the result of puzzle_info(filepath, pad_day), per pad_day
    stack,       \* Spec: source files of the frames below the wrapper, innermost last
    args,        \* the keyword arguments of the read_input call
    pc,          \* Spec: where the read_input call stands
    input_path,  \* Spec: the data path the call computed
    opened,      \* Spec: the paths this call passed to open(), in order
    handles,     \* Spec: the file handles that are open
    fs,          \* Spec: the data files that exist, path -> text
    result,      \* what the call returned or raised
    content      \* SpecShape: the text of the opened file

vars == <<filepath, ret, stack, args, pc, input_path, opened, handles, fs, result, content>>

(***************************************************************************)
(* Bounds of the model.                                                    *)
(***************************************************************************)
MaxYearLen == 3
MaxStemLen == 3
MaxContentLen == 3
MaxFiles == 1

(***************************************************************************)
(* Outcomes of a call: a returned value or a raised exception.             *)
(***************************************************************************)
Return(v) == [exc |-> "none", val |-> v]
Raise(e) == [exc |-> e, val |-> <<>>]
NotCalled == [exc |-> "not called", val |-> <<>>]
None == <<>>
Some(v) == <<v>>

(***************************************************************************)
(* Python's str and int primitives, as far as the code uses them.          *)
(***************************************************************************)
DigitChars == <<"0", "1", "2", "3", "4", "5", "6", "7", "8", "9">>
Digits == {DigitChars[i] : i \in DOMAIN DigitChars}
DigitVal(c) == (CHOOSE i \in DOMAIN DigitChars : DigitChars[i] = c) - 1
Whitespace == {" ", "\t", "\n", "\r"}

RECURSIVE str_lstrip(_, _)
str_lstrip(s, cs) == IF s # <<>> /\ Head(s) \in cs THEN str_lstrip(Tail(s), cs) ELSE s

RECURSIVE str_rstrip(_, _)
str_rstrip(s, cs) ==
    IF s # <<>> /\ s[Len(s)] \in cs THEN str_rstrip(SubSeq(s, 1, Len(s) - 1), cs) ELSE s

\* str.strip(): leading and trailing whitespace removed
str_strip(s) == str_rstrip(str_lstrip(s, Whitespace), Whitespace)

\* the index of the first c in s, 0 when there is none
str_find(s, c) ==
    IF \E i \in DOMAIN s : s[i] = c
    THEN CHOOSE i \in DOMAIN s : s[i] = c /\ \A j \in 1..(i - 1) : s[j] # c
    ELSE 0

\* the index of the last c in s, 0 when there is none
str_rfind(s, c) ==
    IF \E i \in DOMAIN s : s[i] = c
    THEN CHOOSE i \in DOMAIN s : s[i] = c /\ \A j \in (i + 1)..Len(s) : s[j] # c
    ELSE 0

\* str.split(sep): every field, the empty ones included
RECURSIVE str_split(_, _)
str_split(s, sep) ==
    LET i == str_find(s, sep)
    IN IF i = 0 THEN <<s>>
       ELSE <<SubSeq(s, 1, i - 1)>> \o str_split(SubSeq(s, i + 1, Len(s)), sep)

\* str.replace(old, new) for a one-character old
RECURSIVE str_replace(_, _, _)
str_replace(s, old, new) ==
    IF s = <<>> THEN <<>>
    ELSE (IF Head(s) = old THEN new ELSE <<Head(s)>>) \o str_replace(Tail(s), old, new)

\* the digits of an int literal: digits, single underscores only between digits
IntLiteral(b) ==
    /\ b # <<>>
    /\ \A i \in DOMAIN b :
        \/ b[i] \in Digits
        \/ /\ b[i] = "_"
           /\ 1 < i
           /\ i < Len(b)
           /\ b[i - 1] \in Digits
           /\ b[i + 1] \in Digits

RECURSIVE LiteralValue(_, _)
LiteralValue(b, acc) ==
    IF b = <<>> THEN acc
    ELSE LiteralValue(Tail(b),
                      IF Head(b) = "_" THEN acc ELSE acc * 10 + DigitVal(Head(b)))

\* int(s): whitespace around, an optional sign, then an int literal; ValueError otherwise
int(s) ==
    LET t == str_strip(s)
        signed == t # <<>> /\ Head(t) \in {"+", "-"}
        b == IF signed THEN Tail(t) ELSE t
    IN IF IntLiteral(b)
       THEN Return(IF signed /\ Head(t) = "-"
                   THEN 0 - LiteralValue(b, 0)
                   ELSE LiteralValue(b, 0))
       ELSE Raise("ValueError")

RECURSIVE NatStr(_)
NatStr(n) ==
    IF n < 10 THEN <<DigitChars[n + 1]>>
    ELSE NatStr(n \div 10) \o <<DigitChars[(n % 10) + 1]>>

\* str(n) of an int
str(n) == IF n < 0 THEN <<"-">> \o NatStr(0 - n) ELSE NatStr(n)

RECURSIVE Zeros(_)
Zeros(k) == IF k <= 0 THEN <<>> ELSE <<"0">> \o Zeros(k - 1)

\* a formatting that keeps two digits only
Format02d_truncating(n) ==
    LET d == NatStr((IF n < 0 THEN 0 - n ELSE n) % 100)
    IN (IF n < 0 THEN <<"-">> ELSE <<>>) \o Zeros(2 - Len(d)) \o d

\* a formatting that does not pad
Format02d_unpadded(n) == str(n)

\* the width of the day in f"{day:02d}"
DayWidth == 2

\* f"{n:02d}": zero fill after the sign up to a minimum width, never truncating
Format02d(n) ==
    LET sign == IF n < 0 THEN <<"-">> ELSE <<>>
        d == NatStr(IF n < 0 THEN 0 - n ELSE n)
    IN sign \o Zeros(DayWidth - Len(sign) - Len(d)) \o d

(***************************************************************************)
(* pathlib, as far as the code uses it.                                    *)
(***************************************************************************)
\* PurePath.stem: the last segment up to its last dot, unless the dot leads or ends it
PathStem(p) ==
    LET name == p[Len(p)]
        i == str_rfind(name, ".")
    IN IF 1 < i /\ i < Len(name) THEN SubSeq(name, 1, i - 1) ELSE name

\* PurePath.parent of a path of at least two segments
PathParent(p) == SubSeq(p, 1, Len(p) - 1)

\* a / b: an anchored b replaces a
PathJoin(a, b) == IF b # <<>> /\ b[1] = <<"/">> THEN b ELSE a \o b

(***************************************************************************)
(* puzzle_info(filepath, pad_day)                                          *)
(***************************************************************************)
\* a year parser that strips any leading letter, not only "y"
year_of_any_letter(parent_dir) ==
    IF parent_dir # <<>> /\ Head(parent_dir) \notin Digits \cup {"_", "-", "+", " "}
    THEN int(Tail(parent_dir))
    ELSE int(parent_dir)

\* the year from the parent directory: "y2024" or "2024"
year_of(parent_dir) ==
    IF parent_dir # <<>> /\ Head(parent_dir) = "y"
    THEN int(Tail(parent_dir))
    ELSE int(parent_dir)

\* a day parser that forgets to cut the part suffix off
day_of_whole_name(filename) == int(str_replace(filename, "d", <<>>))

\* the day from the file name: the text before the first underscore, every "d" removed
day_of(filename) ==
    LET day_part == str_split(filename, "_")[1]
    IN int(str_replace(day_part, "d", <<>>))

\* the part: the second underscore-separated field, None without an underscore
part_of(filename) ==
    IF str_find(filename, "_") # 0
    THEN LET p == int(str_split(filename, "_")[2])
         IN IF p.exc = "none" THEN Return(Some(p.val)) ELSE p
    ELSE Return(None)

puzzle_info(p, pad_day) ==
    IF Len(p) < 2 THEN Raise("IndexError")
    ELSE
    LET year == year_of(p[Len(p) - 1])
        filename == PathStem(p)
        day == day_of(filename)
        part == part_of(filename)
    IN IF year.exc # "none" THEN year
       ELSE IF day.exc # "none" THEN day
       ELSE IF part.exc # "none" THEN part
       ELSE Return(<<year.val,
                     IF pad_day THEN Format02d(day.val) ELSE day.val,
                     part.val>>)

(***************************************************************************)
(* read_input, up to the data path it computes.                            *)
(***************************************************************************)
TxtExt == <<".", "t", "x", "t">>
TestPrefix == <<"t", "e", "s", "t">>
InputPrefix == <<"i", "n", "p", "u", "t">>

\* a name that tests the part for truth, so that part 0 counts as no part
input_name_truthy_part(test, day, part) ==
    LET filetype == IF test THEN TestPrefix ELSE InputPrefix
    IN IF part = None \/ part[1] = 0
       THEN filetype \o day \o TxtExt
       ELSE filetype \o day \o <<"_">> \o str(part[1]) \o TxtExt

\* f"{filetype}{day}.txt" or f"{filetype}{day}_{part}.txt"
input_name(test, day, part) ==
    LET filetype == IF test THEN TestPrefix ELSE InputPrefix
    IN IF part = None
       THEN filetype \o day \o TxtExt
       ELSE filetype \o day \o <<"_">> \o str(part[1]) \o TxtExt

\* calling_file.parent / data_dir / str(year) / name, or what puzzle_info raised
read_input_path(calling_file, test, data_dir) ==
    LET info == puzzle_info(calling_file, TRUE)
    IN IF info.exc # "none" THEN info
       ELSE Return(PathJoin(PathJoin(PathJoin(PathParent(calling_file), data_dir),
                                     <<str(info.val[1])>>),
                            <<input_name(test, info.val[2], info.val[3])>>))

(***************************************************************************)
(* The inputs of the parser: one token varies over every short text of its *)
(* alphabet while the other is one of a few probes.                        *)
(***************************************************************************)
SeqsUpTo(S, n) == UNION {[1..k -> S] : k \in 0..n}

Root == <<"/">>
Proj == <<"p">>
PyExt == <<".", "p", "y">>

YearChars == {"y", "a", "2", "0", "_"}
YearTokens == SeqsUpTo(YearChars, MaxYearLen) \ {<<>>}
YearProbes == {<<"y", "2", "4">>, <<"2", "4">>, <<"a", "2", "4">>}

StemChars == {"d", "a", "0", "1", "_", "-"}
StemPrefixes == {<<>>, <<"d">>, <<"d", "a", "y">>}
Stems == {pre \o rest : pre \in StemPrefixes, rest \in SeqsUpTo(StemChars, MaxStemLen)}
            \ {<<>>}
StemProbes == {<<"d", "0", "1">>, <<"d", "5", "_", "2">>, <<"d", "a", "y", "5">>,
               <<"d", "1", "a">>}

SourceFile(dir, stem) == <<Root, Proj, dir, stem \o PyExt>>

ParsePaths ==
    {SourceFile(dir, stem) : dir \in YearTokens, stem \in StemProbes}
    \cup {SourceFile(dir, stem) : dir \in YearProbes, stem \in Stems}
    \cup {<<<<"d", "0", "1">> \o PyExt>>, <<Root, <<"d", "0", "1">> \o PyExt>>}

(***************************************************************************)
(* SpecParse: puzzle_info applied to a path, with and without padding.     *)
(***************************************************************************)
NoFiles == [q \in {} |-> <<>>]
NoCall == [test |-> FALSE, strip |-> FALSE, data_dir |-> <<>>, mode |-> "LINES"]
NoResult == [exc |-> "pending", val |-> <<>>]

InitParse ==
    /\ filepath \in ParsePaths
    /\ ret = [pad \in BOOLEAN |-> NotCalled]
    /\ stack = <<>>
    /\ args = NoCall
    /\ pc = "idle"
    /\ input_path = <<>>
    /\ opened = <<>>
    /\ handles = <<>>
    /\ fs = NoFiles
    /\ result = NoResult
    /\ content = <<>>

PuzzleInfoCall(pad_day) ==
    /\ ret[pad_day] = NotCalled
    /\ ret' = [ret EXCEPT ![pad_day] = puzzle_info(filepath, pad_day)]
    /\ UNCHANGED <<filepath, stack, args, pc, input_path, opened, handles, fs, result,
                   content>>

NextParse == \E pad_day \in BOOLEAN : PuzzleInfoCall(pad_day)

SpecParse == InitParse /\ [][NextParse]_vars

(***************************************************************************)
(* read_input: the content of the opened file, by mode and strip.          *)
(***************************************************************************)
\* f.readlines(): the lines of the text, each with its terminator
RECURSIVE readlines(_)
readlines(text) ==
    IF text = <<>> THEN <<>>
    ELSE LET i == str_find(text, "\n")
         IN IF i = 0 THEN <<text>>
            ELSE <<SubSeq(text, 1, i)>> \o readlines(SubSeq(text, i + 1, Len(text)))

\* a reader that strips each line of all its surrounding whitespace
read_content_lines_stripped(text, mode, strip) ==
    IF mode = "LINES"
    THEN LET lines == readlines(text)
         IN IF strip THEN [k \in DOMAIN lines |-> str_strip(lines[k])] ELSE lines
    ELSE IF strip THEN str_strip(text) ELSE text

\* the body of the with block
read_content(text, mode, strip) ==
    IF mode = "LINES"
    THEN LET lines == readlines(text)
         IN IF strip
            THEN [k \in DOMAIN lines |-> str_rstrip(lines[k], {"\n"})]
            ELSE lines
    ELSE IF strip THEN str_strip(text) ELSE text

(***************************************************************************)
(* The file system under open(): ".." segments are resolved, a file is     *)
(* found by the resolved path.                                             *)
(***************************************************************************)
RECURSIVE Resolve(_, _)
Resolve(p, acc) ==
    IF p = <<>> THEN acc
    ELSE IF Head(p) = <<".", ".">>
         THEN Resolve(Tail(p),
                      IF Len(acc) > 1 THEN SubSeq(acc, 1, Len(acc) - 1) ELSE acc)
         ELSE Resolve(Tail(p), Append(acc, Head(p)))

OsPath(p) == Resolve(p, <<>>)
Exists(files, p) == OsPath(p) \in DOMAIN files

(***************************************************************************)
(* The calls of the model: the source files that call read_input, the call *)
(* stacks they call it on, the arguments they pass, the data files.        *)
(***************************************************************************)
CallerFiles ==
    {SourceFile(<<"y", "2", "4">>, <<"d", "0", "1">>),
     SourceFile(<<"y", "2", "4">>, <<"d", "0", "1", "_", "1">>),
     SourceFile(<<"2", "4">>, <<"d", "1", "_", "0">>),
     SourceFile(<<"y", "0", "2", "4">>, <<"d", "1", "0", "0">>),
     SourceFile(<<"a", "2", "4">>, <<"d", "0", "1">>),
     SourceFile(<<"y", "2", "4">>, <<"d", "a", "y", "0", "5">>)}

\* a solution file that runs another one
Runner == SourceFile(<<"y", "2", "4">>, <<"d", "0", "2">>)
Stacks == {<<c>> : c \in CallerFiles} \cup {<<Runner, c>> : c \in CallerFiles}

DataDirs == {<<<<".", ".">>, <<".", ".">>, <<"d", "a", "t", "a">>>>,
             <<<<"d", "a", "t", "a">>>>}
Modes == {"LINES", "TEXT"}
ArgSets == [test : BOOLEAN, strip : BOOLEAN, data_dir : DataDirs, mode : Modes]

FileContents == {<<>>, <<"a", "\n", "b", "\n">>, <<" ", "a", "\n", "\n">>}

DataPaths ==
    {OsPath(read_input_path(c, test, data_dir).val) :
        c \in {f \in CallerFiles \cup {Runner} : puzzle_info(f, TRUE).exc = "none"},
        test \in BOOLEAN, data_dir \in DataDirs}

(***************************************************************************)
(* Spec: calls of read_input, one at a time, over a file system that       *)
(* changes between the calls.                                              *)
(***************************************************************************)
Init ==
    /\ filepath = <<>>
    /\ ret = [pad \in BOOLEAN |-> NotCalled]
    /\ stack = <<>>
    /\ args = NoCall
    /\ pc = "idle"
    /\ input_path = <<>>
    /\ opened = <<>>
    /\ handles = <<>>
    /\ fs = NoFiles
    /\ result = NoResult
    /\ content = <<>>

\* wrapper: the file of frame 1, the frame that called the wrapper
with_calling_file_context(frames) == frames[Len(frames)]

\* the wrapper and read_input up to the data path
ReadInputCall(frames, a) ==
    /\ pc = "idle"
    /\ LET calling_file == with_calling_file_context(frames)
           path == read_input_path(calling_file, a.test, a.data_dir)
       IN /\ stack' = frames
          /\ args' = a
          /\ filepath' = calling_file
          /\ IF path.exc = "none"
             THEN /\ input_path' = path.val
                  /\ pc' = "open"
                  /\ result' = NoResult
             ELSE /\ input_path' = <<>>
                  /\ pc' = "raised"
                  /\ result' = path
    /\ opened' = <<>>
    /\ UNCHANGED <<ret, handles, fs, content>>

\* an open() that falls back to the other file type when the file is missing
OpenFile_with_fallback ==
    /\ pc = "open"
    /\ LET other == read_input_path(filepath, ~args.test, args.data_dir).val
       IN IF Exists(fs, input_path)
          THEN /\ opened' = Append(opened, input_path)
               /\ handles' = Append(handles, input_path)
               /\ pc' = "read"
               /\ UNCHANGED <<result, input_path>>
          ELSE IF Exists(fs, other)
          THEN /\ opened' = opened \o <<input_path, other>>
               /\ handles' = Append(handles, other)
               /\ input_path' = other
               /\ pc' = "read"
               /\ UNCHANGED result
          ELSE /\ opened' = Append(opened, input_path)
               /\ result' = Raise("FileNotFoundError")
               /\ pc' = "raised"
               /\ UNCHANGED <<handles, input_path>>
    /\ UNCHANGED <<filepath, ret, stack, args, fs, content>>

\* open(input_path): a handle, or FileNotFoundError
OpenFile ==
    /\ pc = "open"
    /\ opened' = Append(opened, input_path)
    /\ IF Exists(fs, input_path)
       THEN /\ handles' = Append(handles, input_path)
            /\ pc' = "read"
            /\ UNCHANGED result
       ELSE /\ result' = Raise("FileNotFoundError")
            /\ pc' = "raised"
            /\ UNCHANGED handles
    /\ UNCHANGED <<filepath, ret, stack, args, input_path, fs, content>>

\* the body of the with block: the whole file is read, or the read fails
ReadFile ==
    /\ pc = "read"
    /\ \E io_ok \in BOOLEAN :
        result' = IF io_ok
                  THEN Return(read_content(fs[OsPath(input_path)], args.mode, args.strip))
                  ELSE Raise("OSError")
    /\ pc' = "exit"
    /\ UNCHANGED <<filepath, ret, stack, args, input_path, opened, handles, fs, content>>

\* a close that is skipped when the read raised
CloseFile_unless_raised ==
    /\ pc = "exit"
    /\ handles' = IF result.exc = "none" THEN SubSeq(handles, 1, Len(handles) - 1)
                  ELSE handles
    /\ pc' = IF result.exc = "none" THEN "returned" ELSE "raised"
    /\ UNCHANGED <<filepath, ret, stack, args, input_path, opened, fs, result, content>>

\* leaving the with block closes the handle, on return and on an exception alike
CloseFile ==
    /\ pc = "exit"
    /\ handles' = SubSeq(handles, 1, Len(handles) - 1)
    /\ pc' = IF result.exc = "none" THEN "returned" ELSE "raised"
    /\ UNCHANGED <<filepath, ret, stack, args, input_path, opened, fs, result, content>>

\* the caller has the result (or the exception) and goes on
CallerContinues ==
    /\ pc \in {"returned", "raised"}
    /\ pc' = "idle"
    /\ filepath' = <<>>
    /\ stack' = <<>>
    /\ args' = NoCall
    /\ input_path' = <<>>
    /\ opened' = <<>>
    /\ result' = NoResult
    /\ UNCHANGED <<ret, handles, fs, content>>

\* between two calls a data file is written
WriteFile(path, text) ==
    /\ pc = "idle"
    /\ Cardinality(DOMAIN fs \cup {path}) <= MaxFiles
    /\ (path \in DOMAIN fs => fs[path] # text)
    /\ fs' = [q \in DOMAIN fs \cup {path} |-> IF q = path THEN text ELSE fs[q]]
    /\ UNCHANGED <<filepath, ret, stack, args, pc, input_path, opened, handles, result,
                   content>>

\* between two calls a data file is removed
RemoveFile(path) ==
    /\ pc = "idle"
    /\ path \in DOMAIN fs
    /\ fs' = [q \in DOMAIN fs \ {path} |-> fs[q]]
    /\ UNCHANGED <<filepath, ret, stack, args, pc, input_path, opened, handles, result,
                   content>>

Next ==
    \/ \E frames \in Stacks, a \in ArgSets : ReadInputCall(frames, a)
    \/ OpenFile
    \/ ReadFile
    \/ CloseFile
    \/ CallerContinues
    \/ \E path \in DataPaths, text \in FileContents : WriteFile(path, text)
    \/ \E path \in DataPaths : RemoveFile(path)

Spec == Init /\ [][Next]_vars

(***************************************************************************)
(* SpecShape: the with block of read_input on a file of a given text.      *)
(***************************************************************************)
ContentChars == {"a", " ", "\n"}
ExampleContent == <<"a", "b", "c", "\n", "d", "e", "f", "\n">>
Contents == SeqsUpTo(ContentChars, MaxContentLen) \cup {ExampleContent}

InitShape ==
    /\ content \in Contents
    /\ args \in {a \in ArgSets : a.test = FALSE /\ a.data_dir = <<<<"d", "a", "t", "a">>>>}
    /\ result = NoResult
    /\ filepath = <<>>
    /\ ret = [pad \in BOOLEAN |-> NotCalled]
    /\ stack = <<>>
    /\ pc = "read"
    /\ input_path = <<>>
    /\ opened = <<>>
    /\ handles = <<>>
    /\ fs = NoFiles

ReadOpened ==
    /\ pc = "read"
    /\ result' = Return(read_content(content, args.mode, args.strip))
    /\ pc' = "returned"
    /\ UNCHANGED <<filepath, ret, stack, args, input_path, opened, handles, fs, content>>

NextShape == ReadOpened

SpecShape == InitShape /\ [][NextShape]_vars

(***************************************************************************)
(* What the claims speak of: the shape of a path, read without the parser. *)
(***************************************************************************)
Letters == {"a", "b", "c", "d", "e", "f", "g", "h", "i", "j", "k", "l", "m",
            "n", "o", "p", "q", "r", "s", "t", "u", "v", "w", "x", "y", "z"}
AllDigits(s) == s # <<>> /\ \A i \in DOMAIN s : s[i] \in Digits

\* the number a digit string denotes
RECURSIVE Num(_)
Num(s) ==
    IF s = <<>> THEN 0
    ELSE Num(SubSeq(s, 1, Len(s) - 1)) * 10 + DigitVal(s[Len(s)])

HasDir == Len(filepath) >= 2
Dir == filepath[Len(filepath) - 1]
FileName == filepath[Len(filepath)]
StartsWith(s, pre) == Len(s) >= Len(pre) /\ SubSeq(s, 1, Len(pre)) = pre
EndsWith(s, suf) == Len(s) >= Len(suf) /\ SubSeq(s, Len(s) - Len(suf) + 1, Len(s)) = suf
Underscores(s) == {i \in DOMAIN s : s[i] = "_"}

\* the directory is y<YYYY> or <YYYY>
YearDigits == IF Dir # <<>> /\ Head(Dir) = "y" THEN Tail(Dir) ELSE Dir
ValidYearDir == HasDir /\ AllDigits(YearDigits)

\* the file name is <pre><DD>.py or <pre><DD>_<P>.py: its <DD>, its <P>
Body(pre) == SubSeq(FileName, Len(pre) + 1, Len(FileName) - Len(PyExt))
Cut(pre) == CHOOSE i \in Underscores(Body(pre)) : TRUE
HasPart(pre) == Underscores(Body(pre)) # {}
DD(pre) == IF HasPart(pre) THEN SubSeq(Body(pre), 1, Cut(pre) - 1) ELSE Body(pre)
PP(pre) == SubSeq(Body(pre), Cut(pre) + 1, Len(Body(pre)))
ValidName(pre) ==
    /\ StartsWith(FileName, pre)
    /\ EndsWith(FileName, PyExt)
    /\ Len(FileName) >= Len(pre) + Len(PyExt)
    /\ Cardinality(Underscores(Body(pre))) <= 1
    /\ AllDigits(DD(pre))
    /\ HasPart(pre) => AllDigits(PP(pre))

Called(pad_day) == ret[pad_day] # NotCalled
Ok(pad_day) == ret[pad_day].exc = "none"

C2_DayPrefixParses ==
    (ValidYearDir /\ ValidName(<<"d", "a", "y">>) /\ Called(FALSE)) =>
        /\ Ok(FALSE)
        /\ ret[FALSE].val[2] = Num(DD(<<"d", "a", "y">>))

(***************************************************************************)
(* C3 as stated: a directory L<YYYY> with any leading letter L yields the  *)
(* year YYYY, a directory <YYYY> yields YYYY, and two leading letters are  *)
(* rejected.                                                               *)
(***************************************************************************)
TwoLeadingLetters == Len(Dir) >= 2 /\ Dir[1] \in Letters /\ Dir[2] \in Letters

C3_AnyLetterStripped ==
    \A pad_day \in BOOLEAN :
        (HasDir /\ Called(pad_day)) =>
            /\ (ValidName(<<"d">>) /\ Dir # <<>> /\ Head(Dir) \in Letters
                    /\ AllDigits(Tail(Dir)))
                => (Ok(pad_day) /\ ret[pad_day].val[1] = Num(Tail(Dir)))
            /\ (ValidName(<<"d">>) /\ AllDigits(Dir))
                => (Ok(pad_day) /\ ret[pad_day].val[1] = Num(Dir))
            /\ TwoLeadingLetters => ret[pad_day].exc = "ValueError"

(***************************************************************************)
(* C3 amended: only a leading "y" is stripped. A directory y<YYYY> or      *)
(* <YYYY> yields the year YYYY; a directory that starts with any other     *)
(* letter, or with two letters, is rejected with ValueError.               *)
(***************************************************************************)
C3_OnlyYStripped ==
    \A pad_day \in BOOLEAN :
        (HasDir /\ Called(pad_day)) =>
            /\ (ValidName(<<"d">>) /\ ValidYearDir)
                => (Ok(pad_day) /\ ret[pad_day].val[1] = Num(YearDigits))
            /\ (Dir # <<>> /\ Head(Dir) \in Letters \ {"y"})
                => ret[pad_day].exc = "ValueError"
            /\ TwoLeadingLetters => ret[pad_day].exc = "ValueError"

C3_Witness ==
    /\ HasDir
    /\ ValidName(<<"d">>)
    /\ Dir # <<>> /\ Head(Dir) = "y" /\ AllDigits(Tail(Dir)) /\ Len(Dir) > 2
    /\ Ok(FALSE)
    /\ ret[FALSE].val[1] = Num(Tail(Dir))

(***************************************************************************)
(* C4: wherever puzzle_info succeeds, the padded day converted back with   *)
(* int() is the unpadded day, and year and part are the same in both       *)
(* calls.                                                                  *)
(***************************************************************************)
C4_PaddingRoundTrip ==
    (Called(TRUE) /\ Called(FALSE)) =>
        /\ Ok(TRUE) <=> Ok(FALSE)
        /\ Ok(FALSE) =>
            /\ int(ret[TRUE].val[2]) = Return(ret[FALSE].val[2])
            /\ ret[TRUE].val[1] = ret[FALSE].val[1]
            /\ ret[TRUE].val[3] = ret[FALSE].val[3]

C4_Witness ==
    /\ Called(TRUE) /\ Called(FALSE) /\ Ok(TRUE) /\ Ok(FALSE)
    /\ ret[FALSE].val[2] >= 100
    /\ ret[TRUE].val[2] = str(ret[FALSE].val[2])

(***************************************************************************)
(* C5 as stated: wherever parsing succeeds the padded day is exactly two   *)
(* decimal digits, and read_input puts that text in the data file name.    *)
(***************************************************************************)
DataDirDefault == <<<<".", ".">>, <<".", ".">>, <<"d", "a", "t", "a">>>>

\* the data file name holds the padded day between the prefix and the rest
DayInFileName ==
    \A test \in BOOLEAN :
        LET path == read_input_path(filepath, test, DataDirDefault)
            name == path.val[Len(path.val)]
            pre == IF test THEN TestPrefix ELSE InputPrefix
            day == ret[TRUE].val[2]
        IN /\ path.exc = "none"
           /\ StartsWith(name, pre \o day)
           /\ Len(name) > Len(pre \o day)
           /\ name[Len(pre \o day) + 1] \in {"_", "."}

C5_AlwaysTwoDigits ==
    Ok(TRUE) =>
        /\ Len(ret[TRUE].val[2]) = 2
        /\ AllDigits(ret[TRUE].val[2])
        /\ DayInFileName

(***************************************************************************)
(* C5 amended: the padded day is the day number in decimal, zero-filled to *)
(* a width of at least two: exactly two digits for the days 0 to 99, the   *)
(* number's own three or more digits for a day of 100 or more, and a minus *)
(* sign before the digits of a negative day (a file name such as d-1.py);  *)
(* and read_input puts that text in the data file name.                    *)
(***************************************************************************)
C5_AtLeastTwoDigits ==
    (Ok(TRUE) /\ Called(FALSE)) =>
        LET n == ret[FALSE].val[2]
            day == ret[TRUE].val[2]
        IN /\ (0 <= n /\ n <= 99) =>
                (Len(day) = 2 /\ AllDigits(day) /\ Num(day) = n)
           /\ n >= 100 =>
                (Len(day) >= 3 /\ AllDigits(day) /\ Num(day) = n /\ Head(day) # "0")
           /\ n < 0 =>
                (Head(day) = "-" /\ AllDigits(Tail(day)) /\ Num(Tail(day)) = 0 - n
                    /\ (Len(day) = 2 \/ day[2] # "0"))
           /\ DayInFileName

C5_Witness ==
    /\ Ok(TRUE) /\ Called(FALSE)
    /\ ret[FALSE].val[2] >= 100
    /\ Len(ret[TRUE].val[2]) = 3

(***************************************************************************)
(* C8: puzzle_info raises whenever the year token, after at most one       *)
(* leading letter is removed, or the day token, after its leading          *)
(* non-digit characters are removed, still holds a non-digit.              *)
(***************************************************************************)
RECURSIVE DropLeadingNonDigits(_)
DropLeadingNonDigits(s) ==
    IF s # <<>> /\ Head(s) \notin Digits THEN DropLeadingNonDigits(Tail(s)) ELSE s

HoldsNonDigit(s) == \E i \in DOMAIN s : s[i] \notin Digits

YearRest == IF Dir # <<>> /\ Head(Dir) \in Letters THEN Tail(Dir) ELSE Dir

\* the file name without its extension, up to the first underscore
DayToken ==
    LET base == IF EndsWith(FileName, PyExt)
                THEN SubSeq(FileName, 1, Len(FileName) - Len(PyExt))
                ELSE FileName
        us == Underscores(base)
    IN IF us = {} THEN base
       ELSE SubSeq(base, 1, (CHOOSE i \in us : \A j \in us : i <= j) - 1)

C8_NonNumericRaises ==
    \A pad_day \in BOOLEAN :
        (HasDir /\ Called(pad_day)
            /\ (HoldsNonDigit(YearRest) \/ HoldsNonDigit(DropLeadingNonDigits(DayToken))))
        => ret[pad_day].exc = "ValueError"

(***************************************************************************)
(* What the claims speak of in a call of read_input.                       *)
(***************************************************************************)
PastPath == pc \in {"open", "read", "exit", "returned"}
              \/ (pc = "raised" /\ result.exc \in {"FileNotFoundError", "OSError"})
PastOpen == pc \in {"read", "exit", "returned"}
              \/ (pc = "raised" /\ result.exc \in {"FileNotFoundError", "OSError"})

\* the decimal numeral of a natural number: its digits, no leading zero
IsNumeral(s, n) == AllDigits(s) /\ Num(s) = n /\ (Len(s) = 1 \/ s[1] # "0")

RECURSIVE Concat(_)
Concat(ss) == IF ss = <<>> THEN <<>> ELSE Head(ss) \o Concat(Tail(ss))

\* the lines joined by the terminator
RECURSIVE JoinLines(_)
JoinLines(ss) ==
    IF ss = <<>> THEN <<>>
    ELSE IF Len(ss) = 1 THEN ss[1]
    ELSE ss[1] \o <<"\n">> \o JoinLines(Tail(ss))

Terminators(s) == {i \in DOMAIN s : s[i] = "\n"}
Terminated(s) == s # <<>> /\ s[Len(s)] = "\n"

\* the number of lines of a text: its terminators, and an unterminated last line
LineCount(s) == Cardinality(Terminators(s)) + (IF s # <<>> /\ ~Terminated(s) THEN 1 ELSE 0)

\* t is s without the whitespace at its ends
Trimmed(s, t) ==
    \E i \in 0..Len(s) : \E j \in i..Len(s) :
        /\ t = SubSeq(s, i + 1, j)
        /\ \A k \in 1..i : s[k] \in Whitespace
        /\ \A k \in (j + 1)..Len(s) : s[k] \in Whitespace
        /\ t # <<>> => (t[1] \notin Whitespace /\ t[Len(t)] \notin Whitespace)

C9_MissingFileRaises ==
    /\ (PastOpen /\ ~Exists(fs, input_path)) =>
        /\ pc = "raised"
        /\ result = Raise("FileNotFoundError")
        /\ opened = <<input_path>>
        /\ handles = <<>>
    /\ (pc = "raised" /\ result.exc = "FileNotFoundError") => ~Exists(fs, input_path)
    /\ PastOpen => input_path = read_input_path(filepath, args.test, args.data_dir).val

C9_Witness ==
    /\ pc = "raised"
    /\ result.exc = "FileNotFoundError"
    /\ args.test
    /\ Exists(fs, read_input_path(filepath, FALSE, args.data_dir).val)
    /\ opened = <<input_path>>

(***************************************************************************)
(* C10: a call that reaches the read step opens one handle, reads the      *)
(* whole file, and has closed the handle when it returns or fails; no      *)
(* handle is open between calls, and the result is that of the file's text *)
(* at the time of the call.                                                *)
(***************************************************************************)
C10_HandleScoped ==
    /\ Len(handles) <= 1
    /\ pc \in {"idle", "open", "returned", "raised"} => handles = <<>>
    /\ pc \in {"read", "exit"} => handles = <<input_path>>
    /\ pc \in {"read", "exit", "returned"} => opened = <<input_path>>
    /\ pc = "returned" =>
        /\ Exists(fs, input_path)
        /\ result.exc = "none"
        /\ (args.mode = "TEXT" /\ ~args.strip) => result.val = fs[OsPath(input_path)]
        /\ (args.mode = "LINES" /\ ~args.strip) =>
              Concat(result.val) = fs[OsPath(input_path)]
        /\ args.strip =>
              result.val = read_content(fs[OsPath(input_path)], args.mode, TRUE)

C10_Witness ==
    /\ pc = "raised"
    /\ result.exc = "OSError"
    /\ opened = <<input_path>>
    /\ handles = <<>>

====
